---- MODULE Spec2Model ----
(***************************************************************************)
(* Model of signals2.py: the XRP price monitor (monitor_xrp_trading), its  *)
(* indicator engine (calculate_available_indicators) and its signal        *)
(* classifier (generate_basic_signal).                                     *)
(*                                                                         *)
(* A price is an integer number of price units (the quote source returns   *)
(* four decimals, so one unit is 0.0001 USD).  A float computed from       *)
(* prices is an exact fraction, or one of the IEEE values nan, inf, -inf   *)
(* that numpy produces instead of raising; rounding error of the binary    *)
(* representation is not modelled.  Python's None is the value None for an *)
(* indicator and the empty tuple NoPrice for a price.                      *)
(***************************************************************************)
EXTENDS Integers, Sequences, FiniteSets, TLC

VARIABLES prices, prev_price, current_price, indicators, signal, reasons,
          reason, pc, logged, appended

vars == <<prices, prev_price, current_price, indicators, signal, reasons,
          reason, pc, logged, appended>>

----------------------------------------------------------------------------
(* Bounds of the model.                                                    *)

\* The price source answers freely for its first FeedPeriod prices and then
\* repeats them with that period.
FeedPeriod == 3
\* Number of prices the monitor appends; after them the price source only
\* fails or quotes 0.
MaxAppends == 103
\* Number of ticks whose log_trading_signal raises.
MaxLogFailures == 1

\* Prices the source can return (0 and a negative price included).
Prices == {-100, 0, 100, 106}

----------------------------------------------------------------------------
(* Program constants.                                                      *)

MaxHistory == 100
SMA20Window == 20
SMA50Window == 50
RSIWindow == 14
MomentumPeriods == 10
PriceChangePct == 2
RSIOverbought == 70
RSIOversold == 30
MomentumPct == 5

----------------------------------------------------------------------------
(* Floats: exact fractions n/d with d > 0 in lowest terms, nan, inf, -inf. *)

Abs(n) == IF n < 0 THEN -n ELSE n

RECURSIVE GCD(_, _)
GCD(a, b) == IF b = 0 THEN a ELSE GCD(b, a % b)

None == [k |-> "None", n |-> 0, d |-> 1]
NaN == [k |-> "nan", n |-> 0, d |-> 1]
Inf(s) == [k |-> "inf", n |-> s, d |-> 1]

Num(n, d) ==
    LET g == GCD(Abs(n), Abs(d))
        s == IF d < 0 THEN -1 ELSE 1
    IN  [k |-> "num", n |-> (s * n) \div g, d |-> (s * d) \div g]

Zero == Num(0, 1)
Sgn(n) == IF n > 0 THEN 1 ELSE IF n < 0 THEN -1 ELSE 0

FNeg(x) ==
    CASE x.k = "nan" -> NaN
      [] x.k = "inf" -> Inf(-x.n)
      [] OTHER -> Num(-x.n, x.d)

FAdd(x, y) ==
    CASE x.k = "nan" \/ y.k = "nan" -> NaN
      [] x.k = "inf" /\ y.k = "inf" -> IF x.n = y.n THEN x ELSE NaN
      [] x.k = "inf" -> x
      [] y.k = "inf" -> y
      [] OTHER -> Num(x.n * y.d + y.n * x.d, x.d * y.d)

FSub(x, y) == FAdd(x, FNeg(y))

FMul(x, y) ==
    CASE x.k = "nan" \/ y.k = "nan" -> NaN
      [] x.k = "inf" \/ y.k = "inf" ->
            IF Sgn(x.n) * Sgn(y.n) = 0 THEN NaN ELSE Inf(Sgn(x.n) * Sgn(y.n))
      [] OTHER -> Num(x.n * y.n, x.d * y.d)

\* numpy's float division: a zero divisor gives inf, -inf or nan, no error.
FDiv(x, y) ==
    CASE x.k = "nan" \/ y.k = "nan" -> NaN
      [] x.k = "inf" /\ y.k = "inf" -> NaN
      [] x.k = "inf" -> Inf(IF y.n < 0 THEN -x.n ELSE x.n)
      [] y.k = "inf" -> Zero
      [] y.n = 0 -> IF x.n = 0 THEN NaN ELSE Inf(Sgn(x.n))
      [] OTHER -> Num(x.n * y.d, x.d * y.n)

\* x < y; every comparison with nan is false.
FLt(x, y) ==
    CASE x.k = "nan" \/ y.k = "nan" -> FALSE
      [] x.k = "inf" -> x.n < 0 /\ ~(y.k = "inf" /\ y.n < 0)
      [] y.k = "inf" -> y.n > 0
      [] OTHER -> x.n * y.d < y.n * x.d

FGt(x, y) == FLt(y, x)
FGe(x, y) == x.k /= "nan" /\ y.k /= "nan" /\ ~FLt(x, y)
FLe(x, y) == FGe(y, x)

\* Python's format spec .2f: two decimals, ties to even, the sign kept.
Fmt2f(x) ==
    CASE x.k = "nan" -> "nan"
      [] x.k = "inf" -> IF x.n > 0 THEN "inf" ELSE "-inf"
      [] OTHER ->
            LET a == Abs(x.n) * 100
                q == a \div x.d
                r == a % x.d
                h == IF 2 * r > x.d \/ (2 * r = x.d /\ q % 2 = 1)
                     THEN q + 1 ELSE q
                cents == h % 100
            IN  (IF x.n < 0 THEN "-" ELSE "")
                \o ToString(h \div 100) \o "."
                \o (IF cents < 10 THEN "0" ELSE "") \o ToString(cents)

----------------------------------------------------------------------------
(* calculate_available_indicators                                          *)

\* df['price'].diff() at row i (rows count from 1), for i > 1; the first
\* row has no predecessor and its delta is nan.
Delta(ps, i) == ps[i] - ps[i - 1]

\* delta.where(delta > 0, 0) at row i: a row failing the test, the nan of
\* the first row included, becomes 0.
GainAt(ps, i) == IF i > 1 /\ Delta(ps, i) > 0 THEN Delta(ps, i) ELSE 0

\* -delta.where(delta < 0, 0) at row i.
LossAt(ps, i) == -(IF i > 1 /\ Delta(ps, i) < 0 THEN Delta(ps, i) ELSE 0)

\* df['price'] at row i.
PriceAt(ps, i) == ps[i]

\* Row i of one of the three series the function takes rolling means of.
RowAt(col, ps, i) ==
    CASE col = "price" -> PriceAt(ps, i)
      [] col = "gain" -> GainAt(ps, i)
      [] col = "loss" -> LossAt(ps, i)

RECURSIVE SumRows(_, _, _, _)
SumRows(col, ps, lo, hi) ==
    IF lo > hi THEN 0 ELSE SumRows(col, ps, lo, hi - 1) + RowAt(col, ps, hi)

\* series.rolling(window).mean().iloc[-1], for a series without nan.
RollingMeanLast(col, ps, window) ==
    IF Len(ps) < window THEN NaN
    ELSE Num(SumRows(col, ps, Len(ps) - window + 1, Len(ps)), window)

\* df['price'].shift(periods) at row i.
Shift(ps, i, periods) == IF i - periods < 1 THEN NaN ELSE Num(ps[i - periods], 1)

\* df['price'].pct_change(periods).iloc[-1]
PctChangeLast(ps, periods) ==
    FSub(FDiv(Num(ps[Len(ps)], 1), Shift(ps, Len(ps), periods)), Num(1, 1))

\* Variant of SMA: the mean of the whole column (mean() without rolling()).
SMAWholeColumn(ps, window) ==
    IF Len(ps) >= window THEN Num(SumRows("price", ps, 1, Len(ps)), Len(ps))
    ELSE None

SMA(ps, window) ==
    IF Len(ps) >= window THEN RollingMeanLast("price", ps, window) ELSE None

RSI(ps) ==
    IF Len(ps) >= RSIWindow
    THEN LET gain == RollingMeanLast("gain", ps, RSIWindow)
             loss == RollingMeanLast("loss", ps, RSIWindow)
             rs == FDiv(gain, loss)
         IN  FSub(Num(100, 1), FDiv(Num(100, 1), FAdd(Num(1, 1), rs)))
    ELSE None

Momentum(ps) ==
    IF Len(ps) >= MomentumPeriods
    THEN FMul(PctChangeLast(ps, MomentumPeriods), Num(100, 1))
    ELSE None

calculate_available_indicators(ps) ==
    [SMA20 |-> SMA(ps, SMA20Window),
     SMA50 |-> SMA(ps, SMA50Window),
     RSI |-> RSI(ps),
     momentum |-> Momentum(ps)]

NoIndicators == [SMA20 |-> None, SMA50 |-> None, RSI |-> None, momentum |-> None]

----------------------------------------------------------------------------
(* generate_basic_signal                                                   *)

NoPrice == <<>>
SomePrice(p) == <<p>>

RECURSIVE Join(_, _)
Join(sep, strs) ==
    IF Len(strs) = 0 THEN ""
    ELSE IF Len(strs) = 1 THEN strs[1]
    ELSE strs[1] \o sep \o Join(sep, Tail(strs))

\* ((current_price - prev_price) / prev_price) * 100, for prev_price /= 0.
price_change_pct(cur, prev) ==
    FMul(FDiv(Num(cur - prev, 1), Num(prev, 1)), Num(100, 1))

\* Python's float division raises ZeroDivisionError on a zero divisor.
RaisesZeroDivision(prev) == prev /= NoPrice /\ prev[1] = 0

\* Each rule maps the pair (signal, reasons) built so far to the next one.
PriceRule(st, cur, prev) ==
    IF prev = NoPrice THEN st
    ELSE LET pct == price_change_pct(cur, prev[1])
         IN  IF FGe(pct, Num(PriceChangePct, 1))
             THEN [signal |-> "BUY",
                   reasons |-> Append(st.reasons, "Price up " \o Fmt2f(pct) \o "%")]
             ELSE IF FLe(pct, Num(-PriceChangePct, 1))
             THEN [signal |-> "SELL",
                   reasons |-> Append(st.reasons, "Price down " \o Fmt2f(pct) \o "%")]
             ELSE st

RSIRule(st, ind) ==
    IF ind.RSI = None THEN st
    ELSE IF FGt(ind.RSI, Num(RSIOverbought, 1))
    THEN [signal |-> "SELL",
          reasons |-> Append(st.reasons, "RSI overbought: " \o Fmt2f(ind.RSI))]
    ELSE IF FLt(ind.RSI, Num(RSIOversold, 1))
    THEN [signal |-> "BUY",
          reasons |-> Append(st.reasons, "RSI oversold: " \o Fmt2f(ind.RSI))]
    ELSE st

\* Variant of MomentumRule: the reason replaces the list (reasons = [...])
\* instead of being appended to it.
MomentumRuleOverwrites(st, ind) ==
    IF ind.momentum = None THEN st
    ELSE IF FGt(ind.momentum, Num(MomentumPct, 1))
    THEN [signal |-> "BUY",
          reasons |-> <<"Strong positive momentum: " \o Fmt2f(ind.momentum) \o "%">>]
    ELSE IF FLt(ind.momentum, Num(-MomentumPct, 1))
    THEN [signal |-> "SELL",
          reasons |-> <<"Strong negative momentum: " \o Fmt2f(ind.momentum) \o "%">>]
    ELSE st

MomentumRule(st, ind) ==
    IF ind.momentum = None THEN st
    ELSE IF FGt(ind.momentum, Num(MomentumPct, 1))
    THEN [signal |-> "BUY",
          reasons |-> Append(st.reasons,
              "Strong positive momentum: " \o Fmt2f(ind.momentum) \o "%")]
    ELSE IF FLt(ind.momentum, Num(-MomentumPct, 1))
    THEN [signal |-> "SELL",
          reasons |-> Append(st.reasons,
              "Strong negative momentum: " \o Fmt2f(ind.momentum) \o "%")]
    ELSE st

CrossoverRule(st, ind) ==
    IF ind.SMA20 = None \/ ind.SMA50 = None THEN st
    ELSE IF FGt(ind.SMA20, ind.SMA50)
    THEN [signal |-> "BUY", reasons |-> Append(st.reasons, "SMA20 above SMA50")]
    ELSE IF FLt(ind.SMA20, ind.SMA50)
    THEN [signal |-> "SELL", reasons |-> Append(st.reasons, "SMA20 below SMA50")]
    ELSE st

\* Variant of RunRules: the crossover block placed first, not last.
RunRulesCrossoverFirst(cur, prev, ind) ==
    MomentumRule(
        RSIRule(
            PriceRule(
                CrossoverRule([signal |-> "HOLD", reasons |-> <<>>], ind),
                cur, prev),
            ind),
        ind)

\* The rules in the order the function runs them.
RunRules(cur, prev, ind) ==
    CrossoverRule(
        MomentumRule(
            RSIRule(
                PriceRule([signal |-> "HOLD", reasons |-> <<>>], cur, prev),
                ind),
            ind),
        ind)

generate_basic_signal(cur, prev, ind) ==
    IF RaisesZeroDivision(prev)
    THEN [raised |-> TRUE, signal |-> "", reasons |-> <<>>, reason |-> ""]
    ELSE LET st == RunRules(cur, prev, ind)
         IN  [raised |-> FALSE,
              signal |-> st.signal,
              reasons |-> st.reasons,
              reason |-> IF st.reasons /= <<>> THEN Join(" & ", st.reasons)
                         ELSE "Initial price logging"]

----------------------------------------------------------------------------
(* monitor_xrp_trading                                                     *)

\* if current_price: None and 0.0 are both false.
Truthy(p) == p /= NoPrice /\ p[1] /= 0

\* Variant of Pop0: the newest price is dropped (prices.pop()).
PopLast(ps) == SubSeq(ps, 1, Len(ps) - 1)

\* prices.pop(0)
Pop0(ps) == Tail(ps)

\* prices.append(current_price), then the trim to the last 100 prices.
AppendPrice(ps, p) ==
    LET a == Append(ps, p)
    IN  IF Len(a) > MaxHistory THEN Pop0(a) ELSE a

\* Variant of UpdatedPrev: line 182 outside the if-body, run by every tick.
UpdatedPrevEveryTick(prev, r, completed) == r

\* prev_price after a tick with price r: line 182 is the last assignment of
\* the if-body, so it runs only in a tick that ran the body to its end.
UpdatedPrev(prev, r, completed) == IF completed THEN r ELSE prev

\* What get_xrp_price can return: None on any error, else the quoted price.
get_xrp_price ==
    {NoPrice}
    \cup {SomePrice(0) : p \in Prices \cap {0}}
    \cup IF Len(appended) >= MaxAppends THEN {}
         ELSE IF Len(appended) < FeedPeriod
         THEN {SomePrice(p) : p \in Prices \ {0}}
         ELSE {SomePrice(appended[Len(appended) + 1 - FeedPeriod])}

Init ==
    /\ prices = <<>>
    /\ prev_price = NoPrice
    /\ current_price = NoPrice
    /\ indicators = NoIndicators
    /\ signal = ""
    /\ reasons = <<>>
    /\ reason = ""
    /\ pc = "loop"
    /\ logged = 0
    /\ appended = <<>>

\* A tick whose price is None or 0: the body of the if is not run.
TickSkipped ==
    /\ pc = "loop"
    /\ \E r \in get_xrp_price :
        /\ ~Truthy(r)
        /\ current_price' = r
        /\ prev_price' = UpdatedPrev(prev_price, r, FALSE)
    /\ pc' = "sleep"
    /\ UNCHANGED <<prices, indicators, signal, reasons, reason, logged,
                   appended>>

\* Lines 138-148 of a tick with price r: the append, the trim, the
\* indicators and the classification.
Processed(r) ==
    LET ps == AppendPrice(prices, r[1])
        ind == calculate_available_indicators(ps)
    IN  [prices |-> ps, indicators |-> ind,
         result |-> generate_basic_signal(r[1], prev_price, ind)]

\* Whether log_trading_signal can return, and whether it can raise (the
\* file cannot be opened or written).
LogOutcomes ==
    {TRUE} \cup IF Len(appended) - logged < MaxLogFailures THEN {FALSE} ELSE {}

\* A tick with a price.  An exception leaves the try block where it is
\* raised: in generate_basic_signal (line 148) or in log_trading_signal
\* (line 163), in both cases after the append and before prev_price is set.
TickProcessed ==
    /\ pc = "loop"
    /\ \E r \in get_xrp_price :
        /\ Truthy(r)
        /\ \E res \in {Processed(r)} :
            /\ current_price' = r
            /\ prices' = res.prices
            /\ appended' = Append(appended, r[1])
            /\ indicators' = res.indicators
            /\ IF res.result.raised
               THEN /\ pc' = "except"
                    /\ prev_price' = UpdatedPrev(prev_price, r, FALSE)
                    /\ UNCHANGED <<signal, reasons, reason, logged>>
               ELSE /\ signal' = res.result.signal
                    /\ reasons' = res.result.reasons
                    /\ reason' = res.result.reason
                    /\ \E written \in LogOutcomes :
                        IF written
                        THEN /\ logged' = logged + 1
                             /\ prev_price' = UpdatedPrev(prev_price, r, TRUE)
                             /\ pc' = "sleep"
                        ELSE /\ pc' = "except"
                             /\ prev_price' = UpdatedPrev(prev_price, r, FALSE)
                             /\ UNCHANGED logged

\* Variant of HandleError: the exception is not caught in the loop and
\* ends monitor_xrp_trading.
HandleErrorExits ==
    /\ pc = "except"
    /\ pc' = "exit"
    /\ UNCHANGED <<prices, prev_price, current_price, indicators, signal,
                   reasons, reason, logged, appended>>

\* except Exception: the error is printed, then time.sleep(interval) and
\* the next iteration of while True.
HandleError ==
    /\ pc = "except"
    /\ pc' = "loop"
    /\ UNCHANGED <<prices, prev_price, current_price, indicators, signal,
                   reasons, reason, logged, appended>>

\* time.sleep(interval) at the end of the try block, then the next
\* iteration of while True.
Sleep ==
    /\ pc = "sleep"
    /\ pc' = "loop"
    /\ UNCHANGED <<prices, prev_price, current_price, indicators, signal,
                   reasons, reason, logged, appended>>

Next ==
    \/ TickSkipped
    \/ TickProcessed
    \/ HandleError
    \/ Sleep

Spec == Init /\ [][Next]_vars

\* The loop is a sequential process that is never suspended: as long as
\* get_xrp_price, the file write and time.sleep return, it takes its next
\* step.
LiveSpec == Spec /\ WF_vars(Next)

----------------------------------------------------------------------------
(* generate_basic_signal as a function of its three arguments: the         *)
(* arguments are drawn from the sets below and the function is applied.    *)

ClassifyCurrent == {-102, -98, 97, 98, 99, 100, 102, 103}
ClassifyPrev == {NoPrice, SomePrice(0), SomePrice(100), SomePrice(-100)}
RSIValues ==
    {None, NaN, Num(0, 1), Num(299, 10), Num(30, 1), Num(70, 1), Num(701, 10),
     Num(100, 1)}
MomentumValues ==
    {None, NaN, Inf(1), Inf(-1), Num(-6, 1), Num(-5, 1), Num(0, 1), Num(5, 1),
     Num(501, 100)}
SMAValues == {None, Num(100, 1), Num(2021, 20)}

InitClassify ==
    /\ current_price \in {SomePrice(c) : c \in ClassifyCurrent}
    /\ prev_price \in ClassifyPrev
    /\ indicators \in [SMA20 : SMAValues, SMA50 : SMAValues,
                       RSI : RSIValues, momentum : MomentumValues]
    /\ prices = <<>>
    /\ signal = ""
    /\ reasons = <<>>
    /\ reason = ""
    /\ pc = "classify"
    /\ logged = 0
    /\ appended = <<>>

Classify ==
    /\ pc = "classify"
    /\ \E res \in {generate_basic_signal(current_price[1], prev_price, indicators)} :
        IF res.raised
        THEN /\ pc' = "raised"
             /\ UNCHANGED <<signal, reasons, reason>>
        ELSE /\ pc' = "classified"
             /\ signal' = res.signal
             /\ reasons' = res.reasons
             /\ reason' = res.reason
    /\ UNCHANGED <<prices, prev_price, current_price, indicators, logged,
                   appended>>

NextClassify == Classify

ClassifySpec == InitClassify /\ [][NextClassify]_vars

----------------------------------------------------------------------------
(* Properties of the monitoring loop (Spec, LiveSpec).                     *)

Min(a, b) == IF a < b THEN a ELSE b

\* C1: the price history holds at most 100 prices and is, in arrival order
\* with the most recent last, the last min(k, 100) of the k prices appended
\* so far: an append beyond 100 evicts exactly one price, the oldest.
C1_HistoryIsLastAppended ==
    /\ Len(prices) <= 100
    /\ Len(prices) = Min(Len(appended), 100)
    /\ \A i \in 1..Len(prices) :
        prices[i] = appended[Len(appended) - Len(prices) + i]

\* Two prices have been evicted, and each differed from the one after it.
C1_Witness ==
    /\ Len(appended) = 102
    /\ Len(prices) = 100
    /\ appended[1] /= appended[2]
    /\ appended[2] /= appended[3]
    /\ appended[100] /= appended[101]

\* C2: a tick whose price fetch fails (get_xrp_price returns None) leaves
\* the price history and prev_price unchanged and writes no row.
C2_FailedFetchIsNoOp ==
    [][(pc = "loop" /\ current_price' = NoPrice)
        => (prices' = prices /\ prev_price' = prev_price /\ logged' = logged
            /\ appended' = appended)]_vars

\* A fetch has just failed after ticks that appended prices.
C2_Witness ==
    /\ pc = "sleep"
    /\ current_price = NoPrice
    /\ Len(prices) >= 2
    /\ prev_price /= NoPrice
    /\ logged >= 1

RECURSIVE SumOfLast(_, _)
SumOfLast(s, n) == IF n = 0 THEN 0 ELSE s[Len(s) - n + 1] + SumOfLast(s, n - 1)

MeanOfLastOrAbsent(v, n) ==
    IF Len(prices) < n THEN v = None
    ELSE v.k = "num" /\ v.n * n = v.d * SumOfLast(prices, n)

\* C5: SMA20 is absent exactly when the history has fewer than 20 prices and
\* SMA50 exactly when it has fewer than 50, each on its own count; an
\* available SMA(n) is the arithmetic mean of the last n prices.
C5_SMAIsMeanOfLastN ==
    /\ MeanOfLastOrAbsent(indicators.SMA20, 20)
    /\ MeanOfLastOrAbsent(indicators.SMA50, 50)

\* More than 50 prices, both averages available and different.
C5_Witness ==
    /\ Len(prices) > 50
    /\ indicators.SMA20 /= None
    /\ indicators.SMA50 /= None
    /\ indicators.SMA20 /= indicators.SMA50

\* C6: an available RSI14 is a defined number in [0, 100]; with an average
\* loss of 0 it is a defined edge-case value, never nan.
C6_RSIDefinedInRange ==
    indicators.RSI /= None
        => /\ indicators.RSI.k = "num"
           /\ 0 <= indicators.RSI.n
           /\ indicators.RSI.n <= 100 * indicators.RSI.d

\* C7: momentum10 is available exactly when the history has at least 10
\* prices, and an available momentum10 is the percentage change from the
\* price 10 observations earlier, with the sign of price_now - price_(now-10).
C7_MomentumSign ==
    /\ indicators.momentum /= None <=> Len(prices) >= 10
    /\ indicators.momentum /= None
        => /\ Len(prices) >= 11
           /\ indicators.momentum.k = "num"
           /\ Sgn(indicators.momentum.n)
                = Sgn(prices[Len(prices)] - prices[Len(prices) - 10])

\* C8: every tick whose price source returns a number, zero and negative
\* numbers included, appends that number to the tail of the price history.
C8_EveryPriceAppended ==
    [][(pc = "loop" /\ current_price' /= NoPrice)
        => /\ appended' = Append(appended, current_price'[1])
           /\ prices' /= <<>>
           /\ prices'[Len(prices')] = current_price'[1]]_vars

\* C9: whatever a tick did (it logged a row, its fetch failed, or an
\* exception was raised in it), the loop comes back to the top of while
\* True and calls get_xrp_price again.
C9_LoopKeepsTicking ==
    /\ [](pc \in {"loop", "sleep", "except"})
    /\ (pc \in {"sleep", "except"}) ~> (pc = "loop")

\* The loop is back at its top after a tick whose log_trading_signal raised.
C9_Witness ==
    /\ pc = "loop"
    /\ Len(appended) > logged
    /\ current_price /= NoPrice

\* C10: at the start of every tick prev_price is None exactly when the price
\* history is empty, and is otherwise the last price of the history.
C10_PrevIsLastOfHistory ==
    pc = "loop"
        => /\ prev_price = NoPrice <=> prices = <<>>
           /\ prices /= <<>> => prev_price = SomePrice(prices[Len(prices)])

----------------------------------------------------------------------------
(* Properties of generate_basic_signal (ClassifySpec).  The firing         *)
(* conditions are stated on the arguments, with integer arithmetic.        *)

Above(v, c) == (v.k = "num" /\ v.n > c * v.d) \/ (v.k = "inf" /\ v.n > 0)
Below(v, c) == (v.k = "num" /\ v.n < c * v.d) \/ (v.k = "inf" /\ v.n < 0)

\* Price change of at least +2% (resp. at most -2%) of the previous price.
PriceUp ==
    /\ prev_price /= NoPrice
    /\ LET c == current_price[1]
           p == prev_price[1]
       IN  \/ p > 0 /\ 100 * (c - p) >= 2 * p
           \/ p < 0 /\ 100 * (c - p) <= 2 * p
PriceDown ==
    /\ prev_price /= NoPrice
    /\ LET c == current_price[1]
           p == prev_price[1]
       IN  \/ p > 0 /\ 100 * (c - p) <= -2 * p
           \/ p < 0 /\ 100 * (c - p) >= -2 * p

SMA20Above ==
    /\ indicators.SMA20.k = "num" /\ indicators.SMA50.k = "num"
    /\ indicators.SMA20.n * indicators.SMA50.d > indicators.SMA50.n * indicators.SMA20.d
SMA20Below ==
    /\ indicators.SMA20.k = "num" /\ indicators.SMA50.k = "num"
    /\ indicators.SMA20.n * indicators.SMA50.d < indicators.SMA50.n * indicators.SMA20.d

\* Rules 1..4: price-delta, RSI, momentum, SMA crossover.
RuleBuys ==
    <<PriceUp, Below(indicators.RSI, 30), Above(indicators.momentum, 5), SMA20Above>>
RuleSells ==
    <<PriceDown, Above(indicators.RSI, 70), Below(indicators.momentum, -5), SMA20Below>>
Fired == {i \in 1..4 : RuleBuys[i] \/ RuleSells[i]}
LastFired == CHOOSE i \in Fired : \A j \in Fired : j <= i

\* C3: the signal is the one of the last rule that fires in the order
\* price-delta, RSI, momentum, SMA crossover, and HOLD exactly when no rule
\* fires; with SMA20 and SMA50 available and unequal it is BUY if
\* SMA20 > SMA50 and SELL if SMA20 < SMA50, whatever the other rules say.
C3_LastFiringRuleWins ==
    pc = "classified"
        => /\ signal = IF Fired = {} THEN "HOLD"
                       ELSE IF RuleBuys[LastFired] THEN "BUY" ELSE "SELL"
           /\ signal = "HOLD" <=> Fired = {}
           /\ SMA20Above => signal = "BUY"
           /\ SMA20Below => signal = "SELL"

\* All four rules fired, the first three disagreeing with the crossover.
C3_Witness ==
    /\ pc = "classified"
    /\ PriceUp /\ Above(indicators.RSI, 70) /\ Above(indicators.momentum, 5)
    /\ SMA20Below
    /\ signal = "SELL"

RuleText(i) ==
    CASE i = 1 ->
            LET pct == price_change_pct(current_price[1], prev_price[1])
            IN  IF PriceUp THEN "Price up " \o Fmt2f(pct) \o "%"
                ELSE "Price down " \o Fmt2f(pct) \o "%"
      [] i = 2 ->
            IF RuleSells[2] THEN "RSI overbought: " \o Fmt2f(indicators.RSI)
            ELSE "RSI oversold: " \o Fmt2f(indicators.RSI)
      [] i = 3 ->
            IF RuleBuys[3]
            THEN "Strong positive momentum: " \o Fmt2f(indicators.momentum) \o "%"
            ELSE "Strong negative momentum: " \o Fmt2f(indicators.momentum) \o "%"
      [] OTHER ->
            IF RuleBuys[4] THEN "SMA20 above SMA50" ELSE "SMA20 below SMA50"

EntryIfFired(i) == IF i \in Fired THEN <<RuleText(i)>> ELSE <<>>
ExpectedReasons ==
    EntryIfFired(1) \o EntryIfFired(2) \o EntryIfFired(3) \o EntryIfFired(4)

RECURSIVE JoinedWithAmp(_, _)
JoinedWithAmp(strs, n) ==
    IF n = 1 THEN strs[1] ELSE JoinedWithAmp(strs, n - 1) \o " & " \o strs[n]

\* C4: the reason holds exactly one entry per rule that fired, in the rule
\* order, joined by " & "; it is "Initial price logging" exactly when no
\* rule fired, which is exactly when the signal is HOLD.
C4_ReasonListsFiredRules ==
    pc = "classified"
        => /\ reasons = ExpectedReasons
           /\ Len(reasons) = Cardinality(Fired)
           /\ reason = IF Fired = {} THEN "Initial price logging"
                       ELSE JoinedWithAmp(ExpectedReasons, Len(ExpectedReasons))
           /\ reason = "Initial price logging" <=> Fired = {}
           /\ Fired = {} <=> signal = "HOLD"

\* Four rules fired and the reason is the four entries in rule order.
C4_Witness ==
    /\ pc = "classified"
    /\ reason = "Price up 3.00% & RSI overbought: 70.10 & "
                \o "Strong positive momentum: 5.01% & SMA20 below SMA50"

====
